---------------------------- MODULE Spec2Model ----------------------------
(***************************************************************************)
(* Model of cairo_stack/src/runner.rs: the argument parser (process_args), *)
(* the entry code synthesizer (create_entry_code, get_function_builtins),  *)
(* the pipeline (run) and the result decoder (the panic-result check of    *)
(* run and fetch_arrays_from_memory).                                      *)
(*                                                                         *)
(* Strings are sequences of one-character strings.  A Felt252 is a natural *)
(* number; every number of the model is far below the field's prime, so    *)
(* the reduction modulo the prime never acts.                              *)
(***************************************************************************)
EXTENDS Integers, Sequences, FiniteSets, TLC

VARIABLES
    \* process_args
    value,          \* the argument text
    input,          \* value.split(' '): the tokens not yet taken by input.next()
    pa_args,        \* args: the Vec<FuncArg> built so far
    array_arg,      \* the array being collected
    pa_pc,          \* position in process_args
    pa_result,      \* what process_args returned, or that it panicked
    \* run: what it is called with
    main_func,      \* main_func.signature.param_types
    ret_type,       \* what the signature says of the last return type
    run_args,       \* args.0, the arguments given to run
    trace_file,     \* trace_file.is_some()
    memory_file,    \* memory_file.is_some()
    \* run: its state
    pc,             \* position in run
    entry,          \* what create_entry_code returned
    engine,         \* the calls made to the runner and the vm so far, in order
    files,          \* the files written so far, in order
    return_values,  \* the raw return values
    vm_memory,      \* the memory of the vm after the run
    outcome         \* what run returned

parseVars == <<value, input, pa_args, array_arg, pa_pc, pa_result>>

runInputs == <<main_func, ret_type, run_args, trace_file, memory_file>>

runVars == <<main_func, ret_type, run_args, trace_file, memory_file,
             pc, entry, engine, files, return_values, vm_memory, outcome>>

vars == <<value, input, pa_args, array_arg, pa_pc, pa_result,
          main_func, ret_type, run_args, trace_file, memory_file,
          pc, entry, engine, files, return_values, vm_memory, outcome>>

----------------------------------------------------------------------------
(* Bounds of the model *)

\* longest argument text given to process_args
MaxLen == 5

\* scalars are 1..MaxFelt and arrays have up to MaxFelt elements
MaxFelt == 2

\* most parameters of the callee and most arguments given to the synthesizer
MaxParams == 2

MaxArgs == 2

\* code offset of the callee's entry point in the compiled program (734)
EntryCodeOffset == 0

\* most parameters and arguments in a whole run
RunMaxParams == 1

RunMaxArgs == 1

\* most parameters of a callee whose builtins are looked up
MaxBuiltinParams == 5

\* most raw return values, and the cells of a memory segment
MaxRet == 4

MaxOff == 2

----------------------------------------------------------------------------
(* Constants of the program *)

\* current_offset starts at 3 (786)
FirstBuiltinOffset == 3

\* the proof mode header shifts the frame by 2 (660)
ProofModeShift == 2

\* the segment arena preamble takes 3 cells (650, 680)
ArenaPreambleSize == 3

\* final_call_size (732)
FinalCallSize == 3

\* a panic result with the flag 0 has at least 3 raw values (359)
MinPanicResultSize == 3

----------------------------------------------------------------------------
(* FuncArg, runner.rs 69-76 *)

Single(v) == [tag |-> "Single", val |-> <<v>>]

Array(vs) == [tag |-> "Array", val |-> vs]

----------------------------------------------------------------------------
(* Text *)

Digits == <<"0", "1", "2", "3", "4", "5", "6", "7", "8", "9">>

Chars == {"0", "1", "2", "[", "]", " ", "x"}

Strings == UNION {[1..n -> Chars] : n \in 0..MaxLen}

IsDigit(c) == \E d \in 1..10 : Digits[d] = c

DigitValue(c) == (CHOOSE d \in 1..10 : Digits[d] = c) - 1

RECURSIVE DecValue(_)
DecValue(t) ==
    IF t = <<>> THEN 0
    ELSE 10 * DecValue(SubSeq(t, 1, Len(t) - 1)) + DigitValue(t[Len(t)])

\* Felt252::from_dec_str: a non-empty run of decimal digits, or an error
from_dec_str(t) ==
    IF t # <<>> /\ \A i \in 1..Len(t) : IsDigit(t[i])
    THEN [ok |-> TRUE, v |-> DecValue(t)]
    ELSE [ok |-> FALSE, v |-> 0]

\* str::split(' '): every space ends a token; n spaces give n + 1 tokens
RECURSIVE split(_)
split(s) ==
    IF \A i \in 1..Len(s) : s[i] # " " THEN <<s>>
    ELSE LET i == CHOOSE k \in 1..Len(s) :
                      s[k] = " " /\ \A j \in 1..(k - 1) : s[j] # " "
         IN <<SubSeq(s, 1, i - 1)>> \o split(SubSeq(s, i + 1, Len(s)))

starts_with(t, c) == t # <<>> /\ t[1] = c

ends_with(t, c) == t # <<>> /\ t[Len(t)] = c

strip_prefix(t) == SubSeq(t, 2, Len(t))

strip_suffix(t) == SubSeq(t, 1, Len(t) - 1)

\* run is not running
RunIdle ==
    /\ main_func = <<>>
    /\ ret_type = "Plain"
    /\ run_args = <<>>
    /\ trace_file = FALSE
    /\ memory_file = FALSE
    /\ pc = "idle"
    /\ entry = [kind |-> "None"]
    /\ engine = <<>>
    /\ files = <<>>
    /\ return_values = <<>>
    /\ vm_memory = <<>>
    /\ outcome = [kind |-> "None", values |-> <<>>]

\* process_args is not running
ParseIdle ==
    /\ value = <<>>
    /\ input = <<>>
    /\ pa_args = <<>>
    /\ array_arg = <<>>
    /\ pa_pc = "idle"
    /\ pa_result = [kind |-> "None", args |-> <<>>]

----------------------------------------------------------------------------
(* process_args, runner.rs 78-111 *)

NoResult == [kind |-> "None", args |-> <<>>]

Ok(a) == [kind |-> "Ok", args |-> a]

\* Result::unwrap on an Err: the thread panics, nothing is returned
Panicked == [kind |-> "Panic", args |-> <<>>]

InitParse ==
    /\ value \in Strings
    /\ input = <<>>
    /\ pa_args = <<>>
    /\ array_arg = <<>>
    /\ pa_pc = "start"
    /\ pa_result = NoResult
    /\ RunIdle

\* 79-81: the empty text is the empty argument list
PA_Empty ==
    /\ UNCHANGED runVars
    /\ pa_pc = "start"
    /\ value = <<>>
    /\ pa_pc' = "done"
    /\ pa_result' = Ok(<<>>)
    /\ UNCHANGED <<value, input, pa_args, array_arg>>

\* 82-83
PA_Split ==
    /\ UNCHANGED runVars
    /\ pa_pc = "start"
    /\ value # <<>>
    /\ input' = split(value)
    /\ pa_pc' = "outer"
    /\ UNCHANGED <<value, pa_args, array_arg, pa_result>>

\* 84, 110: input.next() is None, the outer loop ends
PA_Return ==
    /\ UNCHANGED runVars
    /\ pa_pc = "outer"
    /\ input = <<>>
    /\ pa_pc' = "done"
    /\ pa_result' = Ok(pa_args)
    /\ UNCHANGED <<value, input, pa_args, array_arg>>

\* 86-90: a token starting with '[' opens an array with its first element
PA_ArrayOpen ==
    /\ UNCHANGED runVars
    /\ pa_pc = "outer"
    /\ input # <<>>
    /\ starts_with(Head(input), "[")
    /\ LET r == from_dec_str(strip_prefix(Head(input)))
       IN IF r.ok
          THEN /\ array_arg' = <<r.v>>
               /\ input' = Tail(input)
               /\ pa_pc' = "inner"
               /\ UNCHANGED <<value, pa_args, pa_result>>
          ELSE /\ pa_pc' = "done"
               /\ pa_result' = Panicked
               /\ input' = Tail(input)
               /\ UNCHANGED <<value, pa_args, array_arg>>

\* 105-108: any other token is a single argument
PA_Single ==
    /\ UNCHANGED runVars
    /\ pa_pc = "outer"
    /\ input # <<>>
    /\ ~starts_with(Head(input), "[")
    /\ LET r == from_dec_str(Head(input))
       IN IF r.ok
          THEN /\ pa_args' = Append(pa_args, Single(r.v))
               /\ input' = Tail(input)
               /\ UNCHANGED <<value, array_arg, pa_pc, pa_result>>
          ELSE /\ pa_pc' = "done"
               /\ pa_result' = Panicked
               /\ input' = Tail(input)
               /\ UNCHANGED <<value, pa_args, array_arg>>

\* 91-92, 98-100: a token inside the array that does not end with ']'
PA_ArrayElem ==
    /\ UNCHANGED runVars
    /\ pa_pc = "inner"
    /\ input # <<>>
    /\ ~ends_with(Head(input), "]")
    /\ LET r == from_dec_str(Head(input))
       IN IF r.ok
          THEN /\ array_arg' = Append(array_arg, r.v)
               /\ input' = Tail(input)
               /\ UNCHANGED <<value, pa_args, pa_pc, pa_result>>
          ELSE /\ pa_pc' = "done"
               /\ pa_result' = Panicked
               /\ input' = Tail(input)
               /\ UNCHANGED <<value, pa_args, array_arg>>

\* 93-97, 103-104: the token ending with ']' closes the array, which is pushed
PA_ArrayClose ==
    /\ UNCHANGED runVars
    /\ pa_pc = "inner"
    /\ input # <<>>
    /\ ends_with(Head(input), "]")
    /\ LET r == from_dec_str(strip_suffix(Head(input)))
       IN IF r.ok
          THEN /\ pa_args' = Append(pa_args, Array(Append(array_arg, r.v)))
               /\ array_arg' = <<>>
               /\ input' = Tail(input)
               /\ pa_pc' = "outer"
               /\ UNCHANGED <<value, pa_result>>
          ELSE /\ pa_pc' = "done"
               /\ pa_result' = Panicked
               /\ input' = Tail(input)
               /\ UNCHANGED <<value, pa_args, array_arg>>

\* 91-92, 101-102: input.next() is None while array_end is false: the body of
\* `while !array_end` does nothing and the loop goes round again
PA_Spin ==
    /\ UNCHANGED runVars
    /\ pa_pc = "inner"
    /\ input = <<>>
    /\ UNCHANGED <<value, input, pa_args, array_arg, pa_pc, pa_result>>

NextParse ==
    \/ PA_Empty
    \/ PA_Split
    \/ PA_Return
    \/ PA_ArrayOpen
    \/ PA_Single
    \/ PA_ArrayElem
    \/ PA_ArrayClose
    \/ PA_Spin

SpecParse == InitParse /\ [][NextParse]_vars

\* the loop of process_args keeps running as long as it has a step to take
FairSpecParse == SpecParse /\ WF_vars(NextParse)

----------------------------------------------------------------------------
(* Types of the callee's signature.  A ConcreteTypeId is modelled by what    *)
(* the runner reads of it: its debug name, the generic id the registry has  *)
(* for it (get_info, 745-753) and its size in type_sizes.                   *)

Type(g, d, n) == [generic_id |-> g, debug_name |-> d, size |-> n]

\* range-check looked for before bitwise
BuiltinOrder_RangeCheckFirst ==
    << [debug_name |-> "Poseidon",   generic_id |-> "Poseidon",   name |-> "poseidon"],
       [debug_name |-> "EcOp",       generic_id |-> "EcOp",       name |-> "ec_op"],
       [debug_name |-> "RangeCheck", generic_id |-> "RangeCheck", name |-> "range_check"],
       [debug_name |-> "Bitwise",    generic_id |-> "Bitwise",    name |-> "bitwise"],
       [debug_name |-> "Pedersen",   generic_id |-> "Pedersen",   name |-> "pedersen"] >>

\* the builtins in the order get_function_builtins looks for them (788-826)
BuiltinOrder ==
    << [debug_name |-> "Poseidon",   generic_id |-> "Poseidon",   name |-> "poseidon"],
       [debug_name |-> "EcOp",       generic_id |-> "EcOp",       name |-> "ec_op"],
       [debug_name |-> "Bitwise",    generic_id |-> "Bitwise",    name |-> "bitwise"],
       [debug_name |-> "RangeCheck", generic_id |-> "RangeCheck", name |-> "range_check"],
       [debug_name |-> "Pedersen",   generic_id |-> "Pedersen",   name |-> "pedersen"] >>

BuiltinTypes ==
    {Type(BuiltinOrder[i].generic_id, BuiltinOrder[i].debug_name, 1) : i \in 1..Len(BuiltinOrder)}

SystemType == Type("System", "System", 1)

GasBuiltinType == Type("GasBuiltin", "GasBuiltin", 1)

SegmentArenaType == Type("SegmentArena", "SegmentArena", 1)

ResourceTypes == {SystemType, GasBuiltinType, SegmentArenaType}

\* ordinary parameter types: the unit type, a felt252, an array (start and
\* end pointer) and a struct of a felt252 and an array
UnitType == Type("Struct", "Tuple<>", 0)

FeltType == Type("felt252", "felt252", 1)

ArrayType == Type("Array", "Array<felt252>", 2)

StructType == Type("Struct", "Tuple<felt252, Array<felt252>>", 3)

OrdinaryTypes == {UnitType, FeltType, ArrayType, StructType}

RangeCheckType == Type("RangeCheck", "RangeCheck", 1)

\* the types the synthesizer is run on
EntryParamTypes == BuiltinTypes \cup ResourceTypes \cup OrdinaryTypes

SeqsUpTo(S, n) == UNION {[1..k -> S] : k \in 0..n}

Felts == 1..MaxFelt

\* arguments: the scalars of Felts and the arrays <<>>, <<1>>, <<1, 2>>, ...
FuncArgs == {Single(v) : v \in Felts} \cup {Array([i \in 1..n |-> i]) : n \in 0..MaxFelt}

----------------------------------------------------------------------------
(* get_function_builtins, runner.rs 777-829 *)

Reverse(q) == [i \in 1..Len(q) |-> q[Len(q) + 1 - i]]

\* 788-826: one `if entry_params.iter().any(..)` per builtin, in BuiltinOrder;
\* the offset of a builtin that is found is the current offset, which then
\* moves on by one
RECURSIVE ScanBuiltins(_, _, _)
ScanBuiltins_Found(entry_params, i) ==
    \E k \in 1..Len(entry_params) :
        entry_params[k].debug_name = BuiltinOrder[i].debug_name

ScanBuiltins(entry_params, i, st) ==
    IF i > Len(BuiltinOrder) THEN st
    ELSE IF ScanBuiltins_Found(entry_params, i)
    THEN ScanBuiltins(entry_params, i + 1,
             [builtins |-> Append(st.builtins, BuiltinOrder[i].name),
              builtin_offset |-> st.builtin_offset @@ (BuiltinOrder[i].generic_id :> st.current_offset),
              current_offset |-> st.current_offset + 1])
    ELSE ScanBuiltins(entry_params, i + 1, st)

get_function_builtins(entry_params) ==
    LET st == ScanBuiltins(entry_params, 1,
                  [builtins |-> <<>>, builtin_offset |-> <<>>,
                   current_offset |-> FirstBuiltinOffset])
    IN [builtins |-> Reverse(st.builtins), builtin_offset |-> st.builtin_offset]

----------------------------------------------------------------------------
(* create_entry_code, runner.rs 594-743 *)

\* a casm instruction: `[ap + dst] = ...` over the cell ap + src (or fp + src)
\* and the immediate imm; inc is the trailing `ap++`
Instr(op, dst, src, imm, inc) ==
    [op |-> op, dst |-> dst, src |-> src, imm |-> imm, inc |-> inc]

\* %{ memory[ap + 0 .. n - 1] = segments.add() %} ap += n;
AllocSegments(n) == Instr("alloc_segments", 0, 0, n, FALSE)

\* [ap + dst] = imm;   with or without ap++
AssertImm(dst, imm, inc) == Instr("assert_imm", dst, 0, imm, inc)

\* [ap + dst] = [[ap + src] + imm];
DoubleDeref(dst, src, imm, inc) == Instr("double_deref", dst, src, imm, inc)

\* [ap + 0] = [fp + src], ap++;
CopyFp(src) == Instr("copy_fp", 0, src, 0, TRUE)

\* [ap + 0] = [ap + src], ap++;
CopyAp(src) == Instr("copy_ap", 0, src, 0, TRUE)

\* [ap + 0] = [ap + src] + imm, ap++;
AddImm(src, imm) == Instr("add_imm", 0, src, imm, TRUE)

\* [ap + 0] = initial_gas, ap++;   (initial_gas is 9999999999999, 213)
PushInitialGas == Instr("assert_initial_gas", 0, 0, 0, TRUE)

CallRel(offset) == Instr("call_rel", 0, 0, offset, FALSE)

Ret == Instr("ret", 0, 0, 0, FALSE)

\* 619-625: the elements i, i + 1, ... (counted from 0) of a staged array
RECURSIVE StageValues(_, _)
StageValues(values, i) ==
    IF i >= Len(values) THEN <<>>
    ELSE LET arr_at == i + 1
         IN << AssertImm(0, values[i + 1], FALSE),
               DoubleDeref(0, -arr_at, i, TRUE) >> \o StageValues(values, i + 1)

\* 608-627: every array argument is written to a segment of its own
RECURSIVE StageArrays(_, _)
StageArrays(args, st) ==
    IF args = <<>> THEN st
    ELSE IF Head(args).tag # "Array" THEN StageArrays(Tail(args), st)
    ELSE StageArrays(Tail(args),
             [ctx |-> st.ctx \o <<AllocSegments(1)>> \o StageValues(Head(args).val, 0),
              array_args_data |-> Append(st.array_args_data, st.ap_offset),
              ap_offset |-> st.ap_offset + 1 + Len(Head(args).val)])

HasSegmentArena(param_types) ==
    \E k \in 1..Len(param_types) : param_types[k].generic_id = "SegmentArena"

\* 638-649
SegmentArenaPreamble ==
    << AllocSegments(2),
       AssertImm(0, 0, TRUE),
       DoubleDeref(-2, -3, 0, FALSE),
       DoubleDeref(-1, -3, 1, FALSE),
       DoubleDeref(-1, -3, 2, FALSE) >>

\* the staging cell taken as an offset from ap
array_arg_offset_absolute(ap_offset, staged_at) == staged_at

\* 699: the staging cell of the array, as an offset from the current ap
array_arg_offset(ap_offset, staged_at) == -ap_offset + staged_at

\* the index is left where it was
advance_param_index_stuck(param_index) == param_index

\* 714: param_index += 1, after an ordinary parameter only
advance_param_index(param_index) == param_index + 1

\* 687-713: the arguments that fill one ordinary parameter, up to the cell
\* param_ap_offset_end
RECURSIVE FillParam(_, _, _, _)
FillParam(args, array_args_data, param_ap_offset_end, st) ==
    IF ~(st.ap_offset < param_ap_offset_end) THEN st
    ELSE IF st.arg_iter >= Len(args) THEN st
    ELSE LET arg_index == st.arg_iter
             arg == args[st.arg_iter + 1]
         IN IF arg.tag = "Single"
            THEN FillParam(args, array_args_data, param_ap_offset_end,
                     [st EXCEPT !.ctx = Append(@, AssertImm(0, arg.val[1], TRUE)),
                                !.ap_offset = @ + 1,
                                !.arg_iter = @ + 1])
            ELSE LET offset == array_arg_offset(st.ap_offset,
                                             array_args_data[st.array_args_data_iter + 1])
                     st2 == [st EXCEPT !.ctx = @ \o <<CopyAp(offset), AddImm(-1, Len(arg.val))>>,
                                       !.ap_offset = @ + 2,
                                       !.arg_iter = @ + 1,
                                       !.array_args_data_iter = @ + 1]
                 IN IF st2.ap_offset > param_ap_offset_end
                    THEN [st2 EXCEPT !.kind = "ArgumentUnaligned",
                                     !.err_param_index = st.param_index,
                                     !.err_arg_index = arg_index]
                    ELSE FillParam(args, array_args_data, param_ap_offset_end, st2)

\* 652-716: the parameters k, k + 1, ... of the callee, in declared order
RECURSIVE FillParams(_, _, _, _, _, _, _, _)
FillParams(param_types, k, builtin_offset, proof_mode, args, array_args_data, after_arrays_data_offset, st) ==
    IF k > Len(param_types) \/ st.kind # "Ok" THEN st
    ELSE LET ty == param_types[k]
             generic_ty == ty.generic_id
             push(i) == [st EXCEPT !.ctx = Append(@, i), !.ap_offset = @ + 1]
             rest(s) == FillParams(param_types, k + 1, builtin_offset, proof_mode,
                                   args, array_args_data, after_arrays_data_offset, s)
         IN IF generic_ty = "NoInfo"
            THEN [st EXCEPT !.kind = "NoInfoForType"]
            ELSE IF generic_ty \in DOMAIN builtin_offset
            THEN LET offset == builtin_offset[generic_ty] + (IF proof_mode THEN ProofModeShift ELSE 0)
                 IN rest(push(CopyFp(-offset)))
            ELSE IF generic_ty = "System" THEN rest(push(AllocSegments(1)))
            ELSE IF generic_ty = "GasBuiltin" THEN rest(push(PushInitialGas))
            ELSE IF generic_ty = "SegmentArena"
            THEN LET offset == -st.ap_offset + after_arrays_data_offset
                 IN rest(push(AddImm(offset, ArenaPreambleSize)))
            ELSE LET ty_size == ty.size
                     param_ap_offset_end == st.ap_offset + ty_size
                     filled == FillParam(args, array_args_data, param_ap_offset_end,
                                   [st EXCEPT !.expected_arguments_size = @ + ty_size])
                 IN IF filled.kind # "Ok" THEN filled
                    ELSE rest([filled EXCEPT !.param_index = advance_param_index(@)])

\* only too few arguments are refused
size_mismatch_deficit_only(expected_arguments_size, actual_args_size) ==
    expected_arguments_size > actual_args_size

\* only too many arguments are refused
size_mismatch_surplus_only(expected_arguments_size, actual_args_size) ==
    expected_arguments_size < actual_args_size

\* 724
size_mismatch(expected_arguments_size, actual_args_size) ==
    expected_arguments_size # actual_args_size

\* an array counted as one slot
ActualArgsSize_ArraysAsOne(args) == Len(args)

\* 717-723
RECURSIVE ActualArgsSize(_)
ActualArgsSize(args) ==
    IF args = <<>> THEN 0
    ELSE (IF Head(args).tag = "Single" THEN 1 ELSE 2) + ActualArgsSize(Tail(args))

\* what create_entry_code returns: kind is "Ok" (with the instructions ctx
\* and the builtins) or the error, with the error's fields; the other fields
\* are the function's locals when it returned
create_entry_code(param_types, proof_mode, args, code_offset) ==
    LET fb == get_function_builtins(param_types)
        staged == StageArrays(args, [ctx |-> <<>>, array_args_data |-> <<>>, ap_offset |-> 0])
        after_arrays_data_offset == staged.ap_offset
        arena == HasSegmentArena(param_types)
        st0 == [kind |-> "Ok",
                ctx |-> IF arena THEN staged.ctx \o SegmentArenaPreamble ELSE staged.ctx,
                builtins |-> fb.builtins,
                builtin_offset |-> fb.builtin_offset,
                array_args_data |-> staged.array_args_data,
                ap_offset |-> IF arena THEN staged.ap_offset + ArenaPreambleSize
                                       ELSE staged.ap_offset,
                arg_iter |-> 0,
                array_args_data_iter |-> 0,
                param_index |-> 0,
                expected_arguments_size |-> 0,
                actual_args_size |-> 0,
                err_param_index |-> 0,
                err_arg_index |-> 0]
        st == FillParams(param_types, 1, fb.builtin_offset, proof_mode, args,
                         staged.array_args_data, after_arrays_data_offset, st0)
        actual_args_size == ActualArgsSize(args)
    IN IF st.kind # "Ok" THEN st
       ELSE IF size_mismatch(st.expected_arguments_size, actual_args_size)
       THEN [st EXCEPT !.kind = "ArgumentsSizeMismatch",
                       !.actual_args_size = actual_args_size]
       ELSE [st EXCEPT !.ctx = @ \o <<CallRel(FinalCallSize + code_offset), Ret>>,
                       !.actual_args_size = actual_args_size]

----------------------------------------------------------------------------
(* The vm's values and memory *)

\* MaybeRelocatable
MrInt(v) == [tag |-> "Int", v |-> v]

RelocatableValue(s, o) == [tag |-> "RelocatableValue", segment_index |-> s, offset |-> o]

\* ReturnValue, 444-448
RvInt(v) == [tag |-> "Int", v |-> v]

RvArray(elems) == [tag |-> "Array", elems |-> elems]

\* the memory is a function from the known cells <<segment, offset>> to their
\* values.  The memories looked at: any of the cells 0 .. MaxOff - 1 of
\* segment 0 is known (the cells of P) and holds a scalar of its own or (the
\* cells of Q) a pointer; no other cell is known.
Memory(P, Q) ==
    [a \in {<<0, o>> : o \in P} |->
        IF a[2] \in Q THEN RelocatableValue(0, a[2]) ELSE MrInt(10 + a[2])]

Memories ==
    UNION {{Memory(P, Q) : Q \in SUBSET P} : P \in SUBSET (0..(MaxOff - 1))}

FullMemory == Memory(0..(MaxOff - 1), {})

\* the raw return values looked at: the scalars 0 and 1, the pointers into
\* segment 0 and one pointer into another segment
RetValues ==
    {MrInt(0), MrInt(1)}
        \cup {RelocatableValue(0, o) : o \in 0..MaxOff}
        \cup {RelocatableValue(1, MaxOff)}

\* VirtualMachine::get_integer_range: the n scalars from addr on, or an error
\* if one of the cells is not known or holds no scalar
get_integer_range(memory, addr, n) ==
    IF \A i \in 0..(n - 1) :
           /\ <<addr.segment_index, addr.offset + i>> \in DOMAIN memory
           /\ memory[<<addr.segment_index, addr.offset + i>>].tag = "Int"
    THEN [ok |-> TRUE,
          values |-> [i \in 1..n |-> memory[<<addr.segment_index, addr.offset + i - 1>>].v]]
    ELSE [ok |-> FALSE, values |-> <<>>]

\* Relocatable - Relocatable: the distance, or a MathError if the segments
\* differ or the distance is negative
relocatable_sub(a, b) ==
    IF a.segment_index = b.segment_index /\ a.offset >= b.offset
    THEN [ok |-> TRUE, v |-> a.offset - b.offset]
    ELSE [ok |-> FALSE, v |-> 0]

----------------------------------------------------------------------------
(* The panic-result check of run, runner.rs 331-364 *)

Outcome(kind, values) == [kind |-> kind, values |-> values]

\* the flag read the other way round: 0 says failure
failure_flag_inverted(rv) == rv # <<>> /\ rv[1] = MrInt(0)

\* 339: the flag, the first return value, says failure unless it is 0
failure_flag(rv) == ~(rv # <<>> /\ rv[1] = MrInt(0))

\* the range read one cell short
read_panic_data_short(memory, panic_data_start, size) ==
    get_integer_range(memory, panic_data_start, IF size > 0 THEN size - 1 ELSE 0)

\* 351-354: the scalars between the two pointers
read_panic_data(memory, panic_data_start, size) ==
    get_integer_range(memory, panic_data_start, size)

\* the two last values dropped with the flag
success_payload_without_pair(rv) == SubSeq(rv, 2, Len(rv) - 2)

\* 362: the values after the flag
success_payload(rv) == SubSeq(rv, 2, Len(rv))

\* the raw return values to go on with (kind "Continue"), or what run returns.
\* overflow_checks: whether the build checks integer overflow (a debug build
\* panics on `return_values.len() - 2` below zero, a release build wraps).
panic_result_check(ty, rv, memory, overflow_checks) ==
    IF ty = "NoDebugName" THEN Outcome("TypeIdNoDebugName", <<>>)
    ELSE IF ty # "PanicResult" THEN Outcome("Continue", rv)
    ELSE IF ~failure_flag(rv)
    THEN IF Len(rv) < MinPanicResultSize
         THEN Outcome("FailedToExtractReturnValues", <<>>)
         ELSE Outcome("Continue", success_payload(rv))
    ELSE IF rv = <<>> THEN Outcome("FailedToExtractReturnValues", <<>>)
    ELSE IF rv[Len(rv)].tag # "RelocatableValue"
    THEN Outcome("FailedToExtractReturnValues", <<>>)
    ELSE IF Len(rv) < 2
    THEN IF overflow_checks THEN Outcome("Panic", <<>>)
         ELSE Outcome("FailedToExtractReturnValues", <<>>)
    ELSE IF rv[Len(rv) - 1].tag # "RelocatableValue"
    THEN Outcome("FailedToExtractReturnValues", <<>>)
    ELSE LET panic_data_end == rv[Len(rv)]
             panic_data_start == rv[Len(rv) - 1]
             size == relocatable_sub(panic_data_end, panic_data_start)
             panic_data == read_panic_data(memory, panic_data_start, size.v)
         IN IF ~size.ok THEN Outcome("VirtualMachine", <<>>)
            ELSE IF ~panic_data.ok THEN Outcome("Memory", <<>>)
            ELSE Outcome("RunPanic", panic_data.values)

----------------------------------------------------------------------------
(* fetch_arrays_from_memory, runner.rs 472-513 *)

\* 485: return_values.iter().skip_while(|&v| v != value).nth(1): the value
\* after the first value equal to `value`, if there is one
SkipWhileNth1(rv, val) ==
    LET f == CHOOSE k \in 1..Len(rv) : rv[k] = val /\ \A j \in 1..(k - 1) : rv[j] # val
    IN IF f + 1 <= Len(rv) THEN <<rv[f + 1]>> ELSE <<>>

\* the offsets are not compared
array_pair_same_segment(addr, end_addr) == addr.segment_index = end_addr.segment_index

\* 487-493: the pair is an array if both ends are in one segment and the end
\* lies after the start
array_pair(addr, end_addr) ==
    addr.segment_index = end_addr.segment_index /\ end_addr.offset > addr.offset

\* the end pointer counted in
array_length_of_inclusive(addr, end_addr) == end_addr.offset - addr.offset + 1

\* 490
array_length_of(addr, end_addr) == end_addr.offset - addr.offset

\* 478-510: the values i, i + 1, ... of return_values
RECURSIVE FetchFrom(_, _, _, _)
FetchFrom(memory, rv, i, arrays) ==
    IF i > Len(rv) THEN arrays
    ELSE LET val == rv[i]
             next == SkipWhileNth1(rv, val)
         IN IF val.tag = "Int"
            THEN FetchFrom(memory, rv, i + 1, Append(arrays, RvInt(val.v)))
            ELSE IF next = <<>> \/ next[1].tag # "RelocatableValue"
            THEN FetchFrom(memory, rv, i + 1, arrays)
            ELSE IF ~array_pair(val, next[1])
            THEN FetchFrom(memory, rv, i + 1, arrays)
            ELSE LET array_length == array_length_of(val, next[1])
                     got == get_integer_range(memory, val, array_length)
                 IN IF got.ok
                    THEN FetchFrom(memory, rv, i + 1,
                             Append(arrays,
                                    RvArray([k \in 1..array_length |-> RvInt(got.values[k])])))
                    ELSE FetchFrom(memory, rv, i + 1, arrays)

fetch_arrays_from_memory(memory, rv) == Outcome("Ok", FetchFrom(memory, rv, 1, <<>>))

----------------------------------------------------------------------------
(* run, runner.rs 191-442.  proof_mode is true and air_public_input is None  *)
(* (198-199), so the branches for the other values are never taken.         *)

NoEntry == [kind |-> "None"]

NoOutcome == Outcome("None", <<>>)

\* what the signature can say of the last return type: there is none (323),
\* it has no size (327), it has no debug name (335), its name starts with
\* core::panics::PanicResult:: (336), or it is any other type
RetTypes == {"NoRetTypes", "NoTypeSize", "NoDebugName", "PanicResult", "Plain"}

\* the raw return values the vm hands over in a whole run: none, a scalar,
\* and a flag followed by the two ends of an array, with the flag 0 and 1
RunReturnValues ==
    { <<>>,
      <<MrInt(1)>>,
      <<MrInt(0), RelocatableValue(0, 0), RelocatableValue(0, MaxOff)>>,
      <<MrInt(1), RelocatableValue(0, 0), RelocatableValue(0, MaxOff)>> }

InitRun ==
    /\ ParseIdle
    /\ main_func \in SeqsUpTo(EntryParamTypes, RunMaxParams)
    /\ ret_type \in RetTypes
    /\ run_args \in SeqsUpTo(FuncArgs, RunMaxArgs)
    /\ trace_file \in BOOLEAN
    /\ memory_file \in BOOLEAN
    /\ pc = "compile"
    /\ entry = NoEntry
    /\ engine = <<>>
    /\ files = <<>>
    /\ return_values = <<>>
    /\ vm_memory = <<>>
    /\ outcome = NoOutcome

\* `?` on an Err: run returns the error
Return(kind) ==
    /\ pc' = "done"
    /\ outcome' = Outcome(kind, <<>>)

\* 204-211: metadata, registry, type sizes, compilation, the main function
Run_Compile ==
    /\ pc = "compile"
    /\ \/ \E e \in {"VirtualMachine", "ProgramRegistry", "Compilation", "Runner"} :
              Return(e)
       \/ pc' = "create_entry_code" /\ UNCHANGED outcome
    /\ UNCHANGED <<entry, engine, files, return_values, vm_memory>>
    /\ UNCHANGED runInputs
    /\ UNCHANGED parseVars

\* the error of create_entry_code is kept and run goes on
Run_CreateEntryCode_Deferred ==
    /\ pc = "create_entry_code"
    /\ entry' = create_entry_code(main_func, TRUE, run_args, EntryCodeOffset)
    /\ pc' = "new_program"
    /\ IF entry'.kind = "Ok"
       THEN UNCHANGED outcome
       ELSE outcome' = Outcome(entry'.kind, <<>>)
    /\ UNCHANGED <<engine, files, return_values, vm_memory>>
    /\ UNCHANGED runInputs
    /\ UNCHANGED parseVars

\* 217-225
Run_CreateEntryCode ==
    /\ pc = "create_entry_code"
    /\ entry' = create_entry_code(main_func, TRUE, run_args, EntryCodeOffset)
    /\ IF entry'.kind = "Ok"
       THEN pc' = "new_program" /\ UNCHANGED outcome
       ELSE Return(entry'.kind)
    /\ UNCHANGED <<engine, files, return_values, vm_memory>>
    /\ UNCHANGED runInputs
    /\ UNCHANGED parseVars

\* 227-300: the instructions are put together and Program::new_for_proof
\* makes the program of them
Run_NewProgram ==
    /\ pc = "new_program"
    /\ \/ Return("Program")
       \/ pc' = "new_runner" /\ UNCHANGED outcome
    /\ UNCHANGED <<entry, engine, files, return_values, vm_memory>>
    /\ UNCHANGED runInputs
    /\ UNCHANGED parseVars

\* 308-309
Run_NewRunner ==
    /\ pc = "new_runner"
    /\ \/ Return("Runner") /\ UNCHANGED engine
       \/ /\ pc' = "initialize"
          /\ engine' = engine \o <<"CairoRunner::new_v2", "VirtualMachine::new">>
          /\ UNCHANGED outcome
    /\ UNCHANGED <<entry, files, return_values, vm_memory>>
    /\ UNCHANGED runInputs
    /\ UNCHANGED parseVars

\* 310
Run_Initialize ==
    /\ pc = "initialize"
    /\ engine' = Append(engine, "initialize")
    /\ \/ Return("Runner")
       \/ pc' = "additional_initialization" /\ UNCHANGED outcome
    /\ UNCHANGED <<entry, files, return_values, vm_memory>>
    /\ UNCHANGED runInputs
    /\ UNCHANGED parseVars

\* 312, 515-533: additional_initialization adds the builtin cost segment,
\* writes its cells and writes a pointer to it after the program
Run_AdditionalInitialization ==
    /\ pc = "additional_initialization"
    /\ \/ /\ \E e \in {"VirtualMachine", "Memory"} : Return(e)
          /\ engine' = engine \o <<"add_memory_segment", "insert_value">>
       \/ /\ pc' = "run_until_pc"
          /\ engine' = engine \o <<"add_memory_segment", "insert_value", "insert_value">>
          /\ UNCHANGED outcome
    /\ UNCHANGED <<entry, files, return_values, vm_memory>>
    /\ UNCHANGED runInputs
    /\ UNCHANGED parseVars

\* 315
Run_RunUntilPc ==
    /\ pc = "run_until_pc"
    /\ engine' = Append(engine, "run_until_pc")
    /\ \/ Return("VirtualMachine")
       \/ pc' = "end_run" /\ UNCHANGED outcome
    /\ UNCHANGED <<entry, files, return_values, vm_memory>>
    /\ UNCHANGED runInputs
    /\ UNCHANGED parseVars

\* 316
Run_EndRun ==
    /\ pc = "end_run"
    /\ engine' = Append(engine, "end_run")
    /\ \/ Return("VirtualMachine")
       \/ pc' = "get_return_values" /\ UNCHANGED outcome
    /\ UNCHANGED <<entry, files, return_values, vm_memory>>
    /\ UNCHANGED runInputs
    /\ UNCHANGED parseVars

\* 318-329: the return type and its size are looked up and the vm hands over
\* the raw return values
Run_GetReturnValues ==
    /\ pc = "get_return_values"
    /\ IF ret_type = "NoRetTypes"
       THEN Return("NoRetTypesInSignature") /\ UNCHANGED <<engine, return_values, vm_memory>>
       ELSE IF ret_type = "NoTypeSize"
       THEN Return("NoTypeSizeForId") /\ UNCHANGED <<engine, return_values, vm_memory>>
       ELSE /\ engine' = Append(engine, "get_return_values")
            /\ \/ Return("Memory") /\ UNCHANGED <<return_values, vm_memory>>
               \/ /\ return_values' \in RunReturnValues
                  /\ vm_memory' = FullMemory
                  /\ pc' = "panic_result_check"
                  /\ UNCHANGED outcome
    /\ UNCHANGED <<entry, files>>
    /\ UNCHANGED runInputs
    /\ UNCHANGED parseVars

\* 331-364
Run_PanicResultCheck ==
    /\ pc = "panic_result_check"
    /\ \E overflow_checks \in BOOLEAN :
           LET r == panic_result_check(ret_type, return_values, vm_memory, overflow_checks)
           IN IF r.kind = "Continue"
              THEN /\ return_values' = r.values
                   /\ pc' = "relocate"
                   /\ UNCHANGED outcome
              ELSE /\ pc' = "done"
                   /\ outcome' = r
                   /\ UNCHANGED return_values
    /\ UNCHANGED <<entry, engine, files, vm_memory>>
    /\ UNCHANGED runInputs
    /\ UNCHANGED parseVars

\* 412, and the tests of 419 and 430
Run_Relocate ==
    /\ pc = "relocate"
    /\ engine' = Append(engine, "relocate")
    /\ \/ \E e \in {"Trace", "Memory"} : Return(e)
       \/ /\ pc' = IF trace_file THEN "write_trace"
                   ELSE IF memory_file THEN "write_memory"
                   ELSE "fetch_arrays_from_memory"
          /\ UNCHANGED outcome
    /\ UNCHANGED <<entry, files, return_values, vm_memory>>
    /\ UNCHANGED runInputs
    /\ UNCHANGED parseVars

\* 419-429
Run_WriteTrace ==
    /\ pc = "write_trace"
    /\ \/ \E e \in {"Trace", "IO"} : Return(e) /\ UNCHANGED files
       \/ /\ files' = Append(files, "trace")
          /\ \/ \E e \in {"EncodeTrace", "IO"} : Return(e)
             \/ /\ pc' = IF memory_file THEN "write_memory" ELSE "fetch_arrays_from_memory"
                /\ UNCHANGED outcome
    /\ UNCHANGED <<entry, engine, return_values, vm_memory>>
    /\ UNCHANGED runInputs
    /\ UNCHANGED parseVars

\* 430-437
Run_WriteMemory ==
    /\ pc = "write_memory"
    /\ \/ Return("IO") /\ UNCHANGED files
       \/ /\ files' = Append(files, "memory")
          /\ \/ \E e \in {"EncodeTrace", "IO"} : Return(e)
             \/ pc' = "fetch_arrays_from_memory" /\ UNCHANGED outcome
    /\ UNCHANGED <<entry, engine, return_values, vm_memory>>
    /\ UNCHANGED runInputs
    /\ UNCHANGED parseVars

\* 439-441
Run_FetchArrays ==
    /\ pc = "fetch_arrays_from_memory"
    /\ pc' = "done"
    /\ outcome' = fetch_arrays_from_memory(vm_memory, return_values)
    /\ UNCHANGED <<entry, engine, files, return_values, vm_memory>>
    /\ UNCHANGED runInputs
    /\ UNCHANGED parseVars

NextRun ==
    \/ Run_Compile
    \/ Run_CreateEntryCode
    \/ Run_NewProgram
    \/ Run_NewRunner
    \/ Run_Initialize
    \/ Run_AdditionalInitialization
    \/ Run_RunUntilPc
    \/ Run_EndRun
    \/ Run_GetReturnValues
    \/ Run_PanicResultCheck
    \/ Run_Relocate
    \/ Run_WriteTrace
    \/ Run_WriteMemory
    \/ Run_FetchArrays

\* a whole run
SpecRun == InitRun /\ [][NextRun]_vars

\* run at line 217, about to call create_entry_code
InitEntry ==
    /\ ParseIdle
    /\ main_func \in SeqsUpTo(EntryParamTypes, MaxParams)
    /\ ret_type = "Plain"
    /\ run_args \in SeqsUpTo(FuncArgs, MaxArgs)
    /\ trace_file = FALSE
    /\ memory_file = FALSE
    /\ pc = "create_entry_code"
    /\ entry = NoEntry
    /\ engine = <<>>
    /\ files = <<>>
    /\ return_values = <<>>
    /\ vm_memory = <<>>
    /\ outcome = NoOutcome

NextEntry == Run_CreateEntryCode

\* the call of create_entry_code in run, on every callee and argument list
SpecEntry == InitEntry /\ [][NextEntry]_vars

\* run at line 217, on a callee of builtins and felts, without arguments
InitBuiltins ==
    /\ ParseIdle
    /\ main_func \in SeqsUpTo(BuiltinTypes \cup {FeltType}, MaxBuiltinParams)
    /\ ret_type = "Plain"
    /\ run_args = <<>>
    /\ trace_file = FALSE
    /\ memory_file = FALSE
    /\ pc = "create_entry_code"
    /\ entry = NoEntry
    /\ engine = <<>>
    /\ files = <<>>
    /\ return_values = <<>>
    /\ vm_memory = <<>>
    /\ outcome = NoOutcome

\* the call of create_entry_code in run, on callees with many builtins
SpecBuiltins == InitBuiltins /\ [][NextEntry]_vars

\* run at line 331, the vm having handed over the raw return values
InitDecode ==
    /\ ParseIdle
    /\ main_func = <<>>
    /\ ret_type \in {"PanicResult", "Plain"}
    /\ run_args = <<>>
    /\ trace_file = FALSE
    /\ memory_file = FALSE
    /\ pc = "panic_result_check"
    /\ entry = create_entry_code(<<>>, TRUE, <<>>, EntryCodeOffset)
    /\ engine = <<"CairoRunner::new_v2", "VirtualMachine::new", "initialize",
                  "add_memory_segment", "insert_value", "insert_value",
                  "run_until_pc", "end_run", "get_return_values">>
    /\ files = <<>>
    /\ return_values \in SeqsUpTo(RetValues, MaxRet)
    /\ vm_memory \in Memories
    /\ outcome = NoOutcome

NextDecode ==
    \/ Run_PanicResultCheck
    \/ Run_Relocate
    \/ Run_FetchArrays

\* the end of run, from the panic-result check on, on every list of raw
\* return values and every memory
SpecDecode == InitDecode /\ [][NextDecode]_vars

----------------------------------------------------------------------------
(* Claims about run *)

\* the engine operations C1 names
NamedEngineOps == {"initialize", "insert_value", "run_until_pc", "end_run", "relocate"}

\* C1: when run ends with ArgumentsSizeMismatch or ArgumentUnaligned, no
\* runner initialize, memory insertion, run-until-pc, end-run or relocate has
\* been called and no trace or memory file has been written.
C1_ArgumentErrorsBeforeEngine ==
    outcome.kind \in {"ArgumentsSizeMismatch", "ArgumentUnaligned"} =>
        /\ \A i \in 1..Len(engine) : engine[i] \notin NamedEngineOps
        /\ files = <<>>

\* a run refused for an array given to a scalar parameter
C1_Witness ==
    /\ pc = "done"
    /\ outcome.kind = "ArgumentUnaligned"
    /\ main_func = <<FeltType>>
    /\ run_args = <<Array(<<1, 2>>)>>

----------------------------------------------------------------------------
(* Claims about the panic-result check *)

\* run is about to check a panic result
AtPanicCheck == pc = "panic_result_check" /\ ret_type = "PanicResult"

FlagNonZero(rv) == rv # <<>> /\ rv[1] # MrInt(0)

\* the two last raw values are the ends of a range of known scalars
PanicRange(rv, memory) ==
    /\ Len(rv) >= 2
    /\ rv[Len(rv) - 1].tag = "RelocatableValue"
    /\ rv[Len(rv)].tag = "RelocatableValue"
    /\ rv[Len(rv) - 1].segment_index = rv[Len(rv)].segment_index
    /\ rv[Len(rv) - 1].offset <= rv[Len(rv)].offset
    /\ \A o \in rv[Len(rv) - 1].offset..(rv[Len(rv)].offset - 1) :
           /\ <<rv[Len(rv)].segment_index, o>> \in DOMAIN memory
           /\ memory[<<rv[Len(rv)].segment_index, o>>].tag = "Int"

\* the scalars of memory from the cell `start` up to, not including, `end`
ScalarsBetween(memory, start, end) ==
    [i \in 1..(end.offset - start.offset) |->
        memory[<<start.segment_index, start.offset + i - 1>>].v]

\* C2 as claimed: whenever the flag is non-zero the run ends with RunPanic
\* carrying the scalars between the two last raw values.
C2_AnyNonZeroFlagIsRunPanic ==
    [][(AtPanicCheck /\ FlagNonZero(return_values)) =>
           /\ pc' = "done"
           /\ outcome'.kind = "RunPanic"
           /\ outcome'.values =
                  ScalarsBetween(vm_memory, return_values[Len(return_values) - 1],
                                 return_values[Len(return_values)])]_vars

\* C2, amended: whenever the flag is non-zero the run ends there with an
\* error and no decoded value list; when the two last raw values are pointers
\* into one segment, the end not before the start, with scalars in every cell
\* between them, the error is RunPanic and carries exactly those scalars, in
\* memory order, end minus start of them.
C2_NonZeroFlagEndsRun ==
    [][(AtPanicCheck /\ FlagNonZero(return_values)) =>
           /\ pc' = "done"
           /\ outcome'.kind \notin {"Ok", "None"}
           /\ engine' = engine
           /\ PanicRange(return_values, vm_memory) =>
                  /\ outcome'.kind = "RunPanic"
                  /\ Len(outcome'.values) =
                         return_values[Len(return_values)].offset
                             - return_values[Len(return_values) - 1].offset
                  /\ outcome'.values =
                         ScalarsBetween(vm_memory, return_values[Len(return_values) - 1],
                                        return_values[Len(return_values)])]_vars

\* a panic with two scalars, after a payload value
C2_Witness ==
    /\ pc = "done"
    /\ ret_type = "PanicResult"
    /\ outcome = Outcome("RunPanic", <<10, 11>>)
    /\ Len(return_values) = 4
    /\ return_values[1] = MrInt(1)

\* the raw values are a flag and the two ends of k known scalars
FlagAndRange(rv, memory) == Len(rv) = 3 /\ rv[1].tag = "Int" /\ PanicRange(rv, memory)

\* C3 as claimed: the raw values [0, ptr_start, ptr_end] over k scalars make
\* the decoder fail with a panic error carrying those k scalars.
C3_FlagZeroIsPanic ==
    [][(AtPanicCheck /\ FlagAndRange(return_values, vm_memory)
            /\ return_values[1] = MrInt(0)) =>
           /\ pc' = "done"
           /\ outcome' = Outcome("RunPanic",
                                 ScalarsBetween(vm_memory, return_values[2], return_values[3]))]_vars

\* C3, amended: the raw values [f, ptr_start, ptr_end] with f not 0, over k
\* scalars, make the decoder fail with a panic error whose i-th value is the
\* scalar of the cell ptr_start + i - 1, for i = 1 .. k.
C3_PanicDecoding ==
    [][(AtPanicCheck /\ FlagAndRange(return_values, vm_memory)
            /\ return_values[1] # MrInt(0)) =>
           LET k == return_values[3].offset - return_values[2].offset
           IN /\ pc' = "done"
              /\ outcome'.kind = "RunPanic"
              /\ DOMAIN outcome'.values = 1..k
              /\ \A i \in 1..k :
                     outcome'.values[i] =
                         vm_memory[<<return_values[2].segment_index,
                                     return_values[2].offset + i - 1>>].v]_vars

\* a panic decoded from [1, ptr_start, ptr_end] over two scalars
C3_Witness ==
    /\ pc = "done"
    /\ return_values = <<MrInt(1), RelocatableValue(0, 0), RelocatableValue(0, 2)>>
    /\ outcome = Outcome("RunPanic", <<10, 11>>)

\* C4 as claimed: the raw values [1, x, y, z] are decoded to x, y, z.
C4_FlagOneIsSuccess ==
    [][(AtPanicCheck /\ Len(return_values) = 4 /\ return_values[1] = MrInt(1)) =>
           /\ pc' # "done"
           /\ return_values' = Tail(return_values)]_vars

AllScalars(rv) == \A i \in 1..Len(rv) : rv[i].tag = "Int"

\* C4, amended: the raw values [0, x, y, z] are no failure: the flag is
\* dropped and x, y, z go on to be decoded, and three scalars x, y, z are
\* decoded to the value list x, y, z.
C4_SuccessDecoding ==
    [][/\ (AtPanicCheck /\ Len(return_values) = 4 /\ return_values[1] = MrInt(0)) =>
              /\ pc' = "relocate"
              /\ outcome' = NoOutcome
              /\ return_values' = <<return_values[2], return_values[3], return_values[4]>>
       /\ (pc = "fetch_arrays_from_memory" /\ ret_type = "PanicResult"
               /\ AllScalars(return_values)) =>
              /\ pc' = "done"
              /\ outcome' = Outcome("Ok", [i \in 1..Len(return_values) |->
                                              RvInt(return_values[i].v)])]_vars

\* a panic result decoded to three scalars
C4_Witness ==
    /\ pc = "done"
    /\ ret_type = "PanicResult"
    /\ return_values = <<MrInt(1), MrInt(0), MrInt(1)>>
    /\ outcome = Outcome("Ok", <<RvInt(1), RvInt(0), RvInt(1)>>)

----------------------------------------------------------------------------
(* Claims about fetch_arrays_from_memory *)

\* C5: on exactly two pointers [ptr_A, ptr_B] into one segment, k >= 1 cells
\* apart, with k scalars in memory from ptr_A on, fetch_arrays_from_memory
\* returns one element, the array of those k scalars in memory order.
C5_ArrayReconstruction ==
    [][(/\ pc = "fetch_arrays_from_memory"
        /\ Len(return_values) = 2
        /\ PanicRange(return_values, vm_memory)
        /\ return_values[2].offset - return_values[1].offset >= 1) =>
           LET k == return_values[2].offset - return_values[1].offset
           IN /\ pc' = "done"
              /\ outcome'.kind = "Ok"
              /\ Len(outcome'.values) = 1
              /\ outcome'.values[1] =
                     RvArray([i \in 1..k |->
                                 RvInt(vm_memory[<<return_values[1].segment_index,
                                                   return_values[1].offset + i - 1>>].v)])]_vars

\* an array of two scalars rebuilt from its two ends
C5_Witness ==
    /\ pc = "done"
    /\ ret_type = "Plain"
    /\ return_values = <<RelocatableValue(0, 0), RelocatableValue(0, 2)>>
    /\ outcome = Outcome("Ok", <<RvArray(<<RvInt(10), RvInt(11)>>)>>)

----------------------------------------------------------------------------
(* Claims about create_entry_code *)

BuiltinIds == {BuiltinOrder[i].generic_id : i \in 1..Len(BuiltinOrder)}

\* an ordinary parameter: no builtin and no resource
Ordinary(ty) ==
    ty.generic_id \notin BuiltinIds \cup {"System", "GasBuiltin", "SegmentArena"}

OrdinaryParams(param_types) == SelectSeq(param_types, Ordinary)

\* the sum of the declared sizes of the ordinary parameters
RECURSIVE DeclaredSize(_)
DeclaredSize(param_types) ==
    IF param_types = <<>> THEN 0
    ELSE (IF Ordinary(Head(param_types)) THEN Head(param_types).size ELSE 0)
             + DeclaredSize(Tail(param_types))

\* the slots the arguments need: 1 for a scalar, 2 for an array
RequiredSlots(args) ==
    Len(args) + Cardinality({i \in 1..Len(args) : args[i].tag = "Array"})

\* create_entry_code has returned
EntryReturned == pc # "create_entry_code" /\ entry.kind # "None"

\* C9: a scalar given to a callee whose only ordinary parameter is an array
\* (size 2), or an array given to a callee whose only ordinary parameter is a
\* scalar (size 1), makes create_entry_code fail with ArgumentsSizeMismatch
\* or ArgumentUnaligned; no instructions are returned.
C9_KindMismatchIsRefused ==
    (/\ EntryReturned
     /\ Len(OrdinaryParams(main_func)) = 1
     /\ Len(run_args) = 1
     /\ \/ OrdinaryParams(main_func)[1].size = 2 /\ run_args[1].tag = "Single"
        \/ OrdinaryParams(main_func)[1].size = 1 /\ run_args[1].tag = "Array") =>
        /\ entry.kind \in {"ArgumentsSizeMismatch", "ArgumentUnaligned"}
        /\ \A i \in 1..Len(entry.ctx) : entry.ctx[i].op \notin {"call_rel", "ret"}

\* a scalar given to an array parameter that follows a builtin
C9_Witness ==
    /\ EntryReturned
    /\ main_func = <<RangeCheckType, ArrayType>>
    /\ run_args = <<Single(1)>>
    /\ entry.kind = "ArgumentsSizeMismatch"

\* C10: when no ArgumentUnaligned is raised, create_entry_code fails with
\* ArgumentsSizeMismatch exactly when the declared sizes of the ordinary
\* parameters do not add up to the slots of the arguments given (1 for a
\* scalar, 2 for an array, arguments never consumed included); the error
\* carries the two figures, and the final call is emitted only after the
\* check.
C10_SizeMismatch ==
    (EntryReturned /\ entry.kind # "ArgumentUnaligned") =>
        /\ entry.kind \in {"Ok", "ArgumentsSizeMismatch"}
        /\ entry.kind = "ArgumentsSizeMismatch"
               <=> DeclaredSize(main_func) # RequiredSlots(run_args)
        /\ entry.kind = "ArgumentsSizeMismatch" =>
               /\ entry.expected_arguments_size = DeclaredSize(main_func)
               /\ entry.actual_args_size = RequiredSlots(run_args)
               /\ \A i \in 1..Len(entry.ctx) : entry.ctx[i].op # "call_rel"
        /\ entry.kind = "Ok" =>
               /\ Len(entry.ctx) >= 2
               /\ entry.ctx[Len(entry.ctx) - 1].op = "call_rel"
               /\ \A i \in 1..(Len(entry.ctx) - 2) : entry.ctx[i].op # "call_rel"

\* a mismatch with an argument left over that was never consumed
C10_Witness ==
    /\ EntryReturned
    /\ entry.kind = "ArgumentsSizeMismatch"
    /\ entry.expected_arguments_size = 1
    /\ entry.actual_args_size = 3
    /\ entry.arg_iter = 1
    /\ Len(run_args) = 2

\* the walk of 652-716 over the slot budgets alone: the first array that is
\* taken with one slot left, as the positions (counted from 1) of the
\* parameter in param_types and of the array in args; param 0 if there is none.
\* k is the parameter looked at, j the arguments taken, left the slots left.
RECURSIVE Overshoot(_, _, _, _, _)
Overshoot(param_types, args, k, j, left) ==
    IF k > Len(param_types) THEN [param |-> 0, arg |-> 0]
    ELSE IF left <= 0 \/ j >= Len(args)
    THEN IF k = Len(param_types) THEN [param |-> 0, arg |-> 0]
         ELSE Overshoot(param_types, args, k + 1, j,
                        IF Ordinary(param_types[k + 1]) THEN param_types[k + 1].size ELSE 0)
    ELSE IF args[j + 1].tag = "Single"
    THEN Overshoot(param_types, args, k, j + 1, left - 1)
    ELSE IF left < 2 THEN [param |-> k, arg |-> j + 1]
    ELSE Overshoot(param_types, args, k, j + 1, left - 2)

FirstOvershoot(param_types, args) ==
    IF param_types = <<>> THEN [param |-> 0, arg |-> 0]
    ELSE Overshoot(param_types, args, 1, 0,
                   IF Ordinary(param_types[1]) THEN param_types[1].size ELSE 0)

\* C11 as claimed: the param_index of ArgumentUnaligned is the position,
\* counted from 0, of the overshot parameter in the declared parameter list,
\* and arg_index the position, counted from 0, of the array in the arguments.
C11_ParamIndexIsDeclaredPosition ==
    (EntryReturned /\ FirstOvershoot(main_func, run_args).param # 0) =>
        /\ entry.kind = "ArgumentUnaligned"
        /\ entry.err_param_index = FirstOvershoot(main_func, run_args).param - 1
        /\ entry.err_arg_index = FirstOvershoot(main_func, run_args).arg - 1

\* C11, amended: create_entry_code fails with ArgumentUnaligned exactly when
\* an array is taken with one slot of the parameter's budget left; the
\* error's param_index is the number of ordinary parameters declared before
\* that parameter (builtin and resource parameters are not counted), and its
\* arg_index is the position, counted from 0, of the array in the arguments.
C11_UnalignedIndices ==
    EntryReturned =>
        LET o == FirstOvershoot(main_func, run_args)
        IN /\ entry.kind = "ArgumentUnaligned" <=> o.param # 0
           /\ o.param # 0 =>
                  /\ entry.err_param_index =
                         Cardinality({k \in 1..(o.param - 1) : Ordinary(main_func[k])})
                  /\ entry.err_arg_index = o.arg - 1

\* an array overshoots the second ordinary parameter
C11_Witness ==
    /\ EntryReturned
    /\ main_func = <<FeltType, FeltType>>
    /\ run_args = <<Single(1), Array(<<1>>)>>
    /\ entry.kind = "ArgumentUnaligned"
    /\ entry.err_param_index = 1
    /\ entry.err_arg_index = 1

----------------------------------------------------------------------------
(* Claims about the pairing of pointers in fetch_arrays_from_memory *)

\* run is about to decode raw values that are no panic result
AtPlainFetch == pc = "fetch_arrays_from_memory" /\ ret_type = "Plain"

IsPointer(v) == v.tag = "RelocatableValue"

\* no pointer occurs twice in rv
NoRepeatedPointer(rv) ==
    \A i, j \in 1..Len(rv) : (i # j /\ IsPointer(rv[i])) => rv[i] # rv[j]

\* every cell from start up to, not including, end holds a known scalar
Readable(memory, start, end) ==
    \A o \in start.offset..(end.offset - 1) :
        /\ <<start.segment_index, o>> \in DOMAIN memory
        /\ memory[<<start.segment_index, o>>].tag = "Int"

\* start and end delimit an array that can be read
GoodPair(memory, start, end) ==
    /\ start.segment_index = end.segment_index
    /\ end.offset > start.offset
    /\ Readable(memory, start, end)

\* the pointer at position i is followed by a pointer and its pair is not
\* well-formed, or cannot be read
SkippedPointer(memory, rv, i) ==
    /\ i < Len(rv)
    /\ IsPointer(rv[i])
    /\ IsPointer(rv[i + 1])
    /\ ~GoodPair(memory, rv[i], rv[i + 1])

Remove(rv, i) == SubSeq(rv, 1, i - 1) \o SubSeq(rv, i + 1, Len(rv))

\* C12 as claimed (on raw values in which no pointer repeats): a pointer whose
\* pair is not well-formed or cannot be read does not make the decode fail,
\* and the result is the one the raw values without that pointer decode to.
C12_SkippedPointerAsIfAbsent ==
    [][(AtPlainFetch /\ NoRepeatedPointer(return_values)) =>
           /\ outcome'.kind = "Ok"
           /\ \A i \in 1..Len(return_values) :
                  SkippedPointer(vm_memory, return_values, i) =>
                      outcome'.values =
                          fetch_arrays_from_memory(vm_memory, Remove(return_values, i)).values]_vars

\* the position of the first value of rv equal to rv[i]
FirstAt(rv, i) == CHOOSE f \in 1..i : rv[f] = rv[i] /\ \A g \in 1..(f - 1) : rv[g] # rv[i]

\* what the value at position i adds to the result: a scalar itself, a
\* pointer the array up to the value the decoder pairs it with, if that is a
\* pointer and the pair is good, and nothing otherwise
Element(memory, rv, i) ==
    IF ~IsPointer(rv[i]) THEN <<RvInt(rv[i].v)>>
    ELSE LET e == FirstAt(rv, i) + 1
         IN IF e <= Len(rv) /\ IsPointer(rv[e]) /\ GoodPair(memory, rv[i], rv[e])
            THEN <<RvArray([n \in 1..(rv[e].offset - rv[i].offset) |->
                               RvInt(memory[<<rv[i].segment_index, rv[i].offset + n - 1>>].v)])>>
            ELSE <<>>

RECURSIVE Elements(_, _, _)
Elements(memory, rv, i) ==
    IF i > Len(rv) THEN <<>>
    ELSE Element(memory, rv, i) \o Elements(memory, rv, i + 1)

\* C12, amended: in the non-panic decoding path the decode never fails:
\* fetch_arrays_from_memory returns success; a pointer whose pair is not
\* well-formed or cannot be read adds no element, and every other raw value
\* adds what it adds otherwise, the pointer staying in the list as the end of
\* the pointer before it: the result is, in order, each scalar itself and
\* for each pointer with a good pair the array between the two.
C12_SkippedPointerAddsNothing ==
    [][AtPlainFetch =>
           /\ pc' = "done"
           /\ outcome'.kind = "Ok"
           /\ outcome'.values = Elements(vm_memory, return_values, 1)
           /\ \A i \in 1..Len(return_values) :
                  (NoRepeatedPointer(return_values)
                       /\ SkippedPointer(vm_memory, return_values, i)) =>
                      Element(vm_memory, return_values, i) = <<>>]_vars

\* the second pointer has its partner in another segment and adds nothing,
\* while it is the end of the first
C12_Witness ==
    /\ pc = "done"
    /\ ret_type = "Plain"
    /\ return_values = <<RelocatableValue(0, 0), RelocatableValue(0, 1),
                         RelocatableValue(1, MaxOff), MrInt(1)>>
    /\ outcome = Outcome("Ok", <<RvArray(<<RvInt(10)>>), RvInt(1)>>)

----------------------------------------------------------------------------
(* Claims about get_function_builtins *)

\* the type names of the builtins in their priority order, and the names
\* they have in the returned list
Priority == <<"Poseidon", "EcOp", "Bitwise", "RangeCheck", "Pedersen">>

PriorityName == <<"poseidon", "ec_op", "bitwise", "range_check", "pedersen">>

\* the places in Priority of the builtins that occur in param_types
Required(param_types) ==
    {i \in 1..Len(Priority) :
        \E k \in 1..Len(param_types) : param_types[k].debug_name = Priority[i]}

\* C13: get_function_builtins gives an offset to the builtins that occur in
\* the parameter list and to no other; whatever the order and the number of
\* their occurrences, the offsets are 3, 4, ..., 3 + n - 1 along the priority
\* order poseidon, ec-op, bitwise, range-check, pedersen, and each of the n
\* builtins is once in the offset map and once in the returned list.
C13_BuiltinOffsets ==
    EntryReturned =>
        LET req == Required(main_func)
        IN /\ DOMAIN entry.builtin_offset = {Priority[i] : i \in req}
           /\ \A i \in req :
                  entry.builtin_offset[Priority[i]] = 3 + Cardinality({j \in req : j < i})
           /\ {entry.builtin_offset[Priority[i]] : i \in req} = 3..(3 + Cardinality(req) - 1)
           /\ Len(entry.builtins) = Cardinality(req)
           /\ \A i \in req :
                  Cardinality({k \in 1..Len(entry.builtins) :
                                  entry.builtins[k] = PriorityName[i]}) = 1

\* pedersen twice, before range-check, bitwise and a felt
C13_Witness ==
    /\ EntryReturned
    /\ main_func = <<Type("Pedersen", "Pedersen", 1), Type("Pedersen", "Pedersen", 1),
                     RangeCheckType, Type("Bitwise", "Bitwise", 1), FeltType>>
    /\ entry.builtin_offset = [g \in {"Bitwise", "RangeCheck", "Pedersen"} |->
                                  IF g = "Bitwise" THEN 3 ELSE IF g = "RangeCheck" THEN 4 ELSE 5]
    /\ entry.builtins = <<"pedersen", "range_check", "bitwise">>

----------------------------------------------------------------------------
(* Claims about the slots create_entry_code writes *)

ArgSlots(arg) == IF arg.tag = "Single" THEN 1 ELSE 2

\* the number of arguments taken once the arguments after the first j have
\* filled exactly `size` slots, or -1 if they cannot
RECURSIVE Take(_, _, _)
Take(args, j, size) ==
    IF size = 0 THEN j
    ELSE IF j >= Len(args) THEN -1
    ELSE IF ArgSlots(args[j + 1]) > size THEN -1
    ELSE Take(args, j + 1, size - ArgSlots(args[j + 1]))

SlotWrite(w, n) == [w |-> w, n |-> n]

\* the slots an argument is written to: a scalar one slot with its value, an
\* array a slot with its start and a slot with its end
RECURSIVE ArgWrites(_, _, _)
ArgWrites(args, from, to) ==
    IF from > to THEN <<>>
    ELSE (IF args[from].tag = "Single"
          THEN <<SlotWrite("scalar", args[from].val[1])>>
          ELSE <<SlotWrite("array_start", 0), SlotWrite("array_end", Len(args[from].val))>>)
             \o ArgWrites(args, from + 1, to)

\* the slots of the parameters k, k + 1, ... when every ordinary parameter is
\* filled exactly by the arguments that follow those of the parameter before
\* it and no argument is left over; <<SlotWrite("none", 0)>> ends the
\* sequence if that cannot be done
RECURSIVE ExactFill(_, _, _, _)
ExactFill(param_types, args, k, j) ==
    IF k > Len(param_types)
    THEN IF j = Len(args) THEN <<>> ELSE <<SlotWrite("none", 0)>>
    ELSE IF ~Ordinary(param_types[k])
    THEN <<SlotWrite("resource", 0)>> \o ExactFill(param_types, args, k + 1, j)
    ELSE LET j2 == Take(args, j, param_types[k].size)
         IN IF j2 = -1 THEN <<SlotWrite("none", 0)>>
            ELSE ArgWrites(args, j + 1, j2) \o ExactFill(param_types, args, k + 1, j2)

\* the slot an instruction of the parameter loop writes
WriteOf(instr) ==
    IF instr.op = "assert_imm" THEN SlotWrite("scalar", instr.imm)
    ELSE IF instr.op = "copy_ap" THEN SlotWrite("array_start", 0)
    ELSE IF instr.op = "add_imm" /\ instr.src = -1 THEN SlotWrite("array_end", instr.imm)
    ELSE SlotWrite("resource", 0)

\* the instructions that stage the arrays, 608-627
RECURSIVE StagingLength(_)
StagingLength(args) ==
    IF args = <<>> THEN 0
    ELSE (IF Head(args).tag = "Array" THEN 1 + 2 * Len(Head(args).val) ELSE 0)
             + StagingLength(Tail(args))

\* the instructions of the parameter loop in the code returned
ParamLoopCode(param_types, args, ctx) ==
    SubSeq(ctx,
           StagingLength(args)
               + (IF \E k \in 1..Len(param_types) : param_types[k].generic_id = "SegmentArena"
                  THEN 5 ELSE 0) + 1,
           Len(ctx) - 2)

\* C14: when create_entry_code succeeds every argument has been taken once,
\* in order, and every ordinary parameter of size S has been written exactly
\* S slots from consecutive arguments, 1 for a scalar and 2 for an array: no
\* parameter has too few or too many and no array lies across two parameters.
C14_ExactFill ==
    (EntryReturned /\ entry.kind = "Ok") =>
        /\ entry.arg_iter = Len(run_args)
        /\ LET code == ParamLoopCode(main_func, run_args, entry.ctx)
           IN [i \in 1..Len(code) |-> WriteOf(code[i])] = ExactFill(main_func, run_args, 1, 0)

\* a scalar and an array, each filling a parameter of its own
C14_Witness ==
    /\ EntryReturned
    /\ entry.kind = "Ok"
    /\ main_func = <<FeltType, ArrayType>>
    /\ run_args = <<Single(2), Array(<<1>>)>>
    /\ entry.arg_iter = 2
    /\ entry.param_index = 2

----------------------------------------------------------------------------
(* Claims about the cells the returned code writes.  The instructions are    *)
(* run from ap = 0 on an empty stack: cells is the stack, mem the segments   *)
(* allocated, copies the cells every `[ap] = [ap + offset]` copied from, to. *)

IntVal(n) == [t |-> "int", a |-> n, b |-> 0]

PtrVal(seg, off) == [t |-> "ptr", a |-> seg, b |-> off]

OtherVal(t) == [t |-> t, a |-> 0, b |-> 0]

CellAt(cells, c) == IF c \in DOMAIN cells THEN cells[c] ELSE OtherVal("none")

\* one instruction
Step(instr, m) ==
    LET ap == m.ap
        next == IF instr.inc THEN ap + 1 ELSE ap
    IN IF instr.op = "alloc_segments"
       THEN [m EXCEPT !.cells = [k \in ap..(ap + instr.imm - 1) |-> PtrVal(m.segs + (k - ap), 0)] @@ @,
                      !.segs = @ + instr.imm,
                      !.ap = ap + instr.imm]
       ELSE IF instr.op = "assert_imm"
       THEN [m EXCEPT !.cells = ((ap + instr.dst) :> IntVal(instr.imm)) @@ @, !.ap = next]
       ELSE IF instr.op = "double_deref"
       THEN LET p == CellAt(m.cells, ap + instr.src)
            IN IF p.t = "ptr"
               THEN [m EXCEPT !.mem = (<<p.a, p.b + instr.imm>> :> CellAt(m.cells, ap + instr.dst)) @@ @,
                              !.ap = next]
               ELSE [m EXCEPT !.ok = FALSE, !.ap = next]
       ELSE IF instr.op = "copy_fp"
       THEN [m EXCEPT !.cells = (ap :> OtherVal("fp")) @@ @, !.ap = next]
       ELSE IF instr.op = "assert_initial_gas"
       THEN [m EXCEPT !.cells = (ap :> OtherVal("gas")) @@ @, !.ap = next]
       ELSE IF instr.op = "copy_ap"
       THEN [m EXCEPT !.cells = (ap :> CellAt(m.cells, ap + instr.src)) @@ @,
                      !.copies = Append(@, [from |-> ap + instr.src, to |-> ap]),
                      !.ap = next]
       ELSE IF instr.op = "add_imm"
       THEN LET v == CellAt(m.cells, ap + instr.src)
            IN [m EXCEPT !.cells = (ap :> (IF v.t = "ptr" THEN PtrVal(v.a, v.b + instr.imm)
                                           ELSE IF v.t = "int" THEN IntVal(v.a + instr.imm)
                                           ELSE OtherVal("none"))) @@ @,
                         !.ap = next]
       ELSE m

RECURSIVE Exec(_, _, _)
Exec(ctx, i, m) == IF i > Len(ctx) THEN m ELSE Exec(ctx, i + 1, Step(ctx[i], m))

Executed(ctx) ==
    Exec(ctx, 1, [ap |-> 0, cells |-> <<>>, segs |-> 0, mem |-> <<>>, copies |-> <<>>, ok |-> TRUE])

IsArrayArg(arg) == arg.tag = "Array"

\* C15: when create_entry_code succeeds, whatever builtin, system, gas and
\* segment-arena parameters lie between the ordinary ones, the first slot of
\* the j-th array argument is copied from the cell its segment pointer was
\* staged in, the cell recorded for array j; the second slot is that pointer
\* plus the number of elements; and the segment holds the elements of the
\* array at the indices 0 .. len - 1, in order, and nothing else.
C15_ArraySlots ==
    (EntryReturned /\ entry.kind = "Ok") =>
        LET m == Executed(entry.ctx)
            arrays == SelectSeq(run_args, IsArrayArg)
        IN /\ m.ok
           /\ Len(m.copies) = Len(arrays)
           /\ Len(entry.array_args_data) = Len(arrays)
           /\ \A j \in 1..Len(arrays) :
                  LET from == m.copies[j].from
                      to == m.copies[j].to
                      p == CellAt(m.cells, from)
                  IN /\ from = entry.array_args_data[j]
                     /\ p.t = "ptr" /\ p.b = 0
                     /\ \A h \in 1..Len(arrays) : h # j => CellAt(m.cells, m.copies[h].from) # p
                     /\ CellAt(m.cells, to) = p
                     /\ CellAt(m.cells, to + 1) = PtrVal(p.a, Len(arrays[j].val))
                     /\ {c[2] : c \in {d \in DOMAIN m.mem : d[1] = p.a}}
                            = 0..(Len(arrays[j].val) - 1)
                     /\ \A n \in 1..Len(arrays[j].val) :
                            m.mem[<<p.a, n - 1>>] = IntVal(arrays[j].val[n])

\* two arrays of different lengths, each filling a parameter
C15_Witness ==
    /\ EntryReturned
    /\ entry.kind = "Ok"
    /\ main_func = <<ArrayType, ArrayType>>
    /\ run_args = <<Array(<<1>>), Array(<<1, 2>>)>>
    /\ entry.array_args_data = <<0, 2>>
    /\ Executed(entry.ctx).copies = <<[from |-> 0, to |-> 5], [from |-> 2, to |-> 7]>>

----------------------------------------------------------------------------
(* Claims about the partner of a pointer in fetch_arrays_from_memory *)

\* what the value at position i adds when its end is the value at i + 1
ElementByPosition(memory, rv, i) ==
    IF ~IsPointer(rv[i]) THEN <<RvInt(rv[i].v)>>
    ELSE IF i + 1 <= Len(rv) /\ IsPointer(rv[i + 1]) /\ GoodPair(memory, rv[i], rv[i + 1])
    THEN <<RvArray([n \in 1..(rv[i + 1].offset - rv[i].offset) |->
                       RvInt(memory[<<rv[i].segment_index, rv[i].offset + n - 1>>].v)])>>
    ELSE <<>>

RECURSIVE ElementsByPosition(_, _, _)
ElementsByPosition(memory, rv, i) ==
    IF i > Len(rv) THEN <<>>
    ELSE ElementByPosition(memory, rv, i) \o ElementsByPosition(memory, rv, i + 1)

\* C16: in the non-panic decoding path the end pointer of the pointer at
\* position i is the raw value at position i + 1, also when the same pointer
\* occurs more than once, and a pointer in the last position adds nothing:
\* the result is, in order, each scalar and the array between each pointer
\* and its successor.
C16_PartnerIsSuccessor ==
    [][AtPlainFetch =>
           /\ outcome'.kind = "Ok"
           /\ outcome'.values = ElementsByPosition(vm_memory, return_values, 1)]_vars

----------------------------------------------------------------------------
(* Claims about process_args *)

\* C6: process_args terminates on every input: as long as it has not
\* returned it has a step that changes its state (it never goes round a loop
\* that consumes nothing); an unterminated array included.
C6_ProcessArgsTerminates == pa_pc = "done" \/ ENABLED <<NextParse>>_vars

\* a token that is no decimal integer even with an opening '[' and a closing
\* ']' taken off
BadToken(t) ==
    LET a == IF starts_with(t, "[") THEN strip_prefix(t) ELSE t
        b == IF ends_with(a, "]") THEN strip_suffix(a) ELSE a
    IN ~from_dec_str(b).ok

HasBadToken(s) == s # <<>> /\ \E i \in 1..Len(split(s)) : BadToken(split(s)[i])

\* C7: for an input with a token that is not a valid base-10 integer,
\* process_args returns a parse error as its result value: it neither aborts
\* nor returns an argument list.
C7_BadTokenIsParseError ==
    (pa_pc = "done" /\ HasBadToken(value)) => pa_result.kind = "Err"

\* a decimal numeral in canonical form: digits, no leading zero
Numeral(t) ==
    /\ from_dec_str(t).ok
    /\ (Len(t) > 1 => t[1] # "0")

\* the grammar of the argument text: scalars and bracketed arrays of one or
\* more scalars, one space between tokens
RECURSIVE WellFormedTokens(_, _)
WellFormedTokens(toks, inArray) ==
    IF toks = <<>> THEN ~inArray
    ELSE LET t == Head(toks) IN
         IF inArray
         THEN IF ends_with(t, "]")
              THEN Numeral(strip_suffix(t)) /\ WellFormedTokens(Tail(toks), FALSE)
              ELSE Numeral(t) /\ WellFormedTokens(Tail(toks), TRUE)
         ELSE IF starts_with(t, "[")
              THEN IF ends_with(t, "]")
                   THEN /\ Numeral(strip_suffix(strip_prefix(t)))
                        /\ WellFormedTokens(Tail(toks), FALSE)
                   ELSE /\ Numeral(strip_prefix(t))
                        /\ WellFormedTokens(Tail(toks), TRUE)
              ELSE Numeral(t) /\ WellFormedTokens(Tail(toks), FALSE)

WellFormed(s) == s = <<>> \/ WellFormedTokens(split(s), FALSE)

RECURSIVE ToDec(_)
ToDec(n) ==
    IF n < 10 THEN <<Digits[n + 1]>>
    ELSE ToDec(n \div 10) \o <<Digits[(n % 10) + 1]>>

RECURSIVE JoinFelts(_)
JoinFelts(vs) ==
    IF vs = <<>> THEN <<>>
    ELSE IF Len(vs) = 1 THEN ToDec(vs[1])
    ELSE ToDec(vs[1]) \o <<" ">> \o JoinFelts(Tail(vs))

ArgText(a) ==
    IF a.tag = "Single" THEN ToDec(a.val[1])
    ELSE <<"[">> \o JoinFelts(a.val) \o <<"]">>

\* the arguments written back with the same bracket and space convention
RECURSIVE Serialize(_)
Serialize(as) ==
    IF as = <<>> THEN <<>>
    ELSE IF Len(as) = 1 THEN ArgText(as[1])
    ELSE ArgText(as[1]) \o <<" ">> \o Serialize(Tail(as))

\* C8: on a well-formed argument text (a single-token array such as "[5]"
\* included) process_args succeeds, and writing the parsed arguments back
\* reproduces the text.
C8_ParseRoundTrip ==
    (pa_pc = "done" /\ WellFormed(value)) =>
        /\ pa_result.kind = "Ok"
        /\ Serialize(pa_result.args) = value

=============================================================================
